---- MODULE Spec2Model ----
(***************************************************************************)
(* Model of hybris/properties/properties.c: the client of the Android      *)
(* property service (get / set / list over a local socket) and its static  *)
(* fallback sources (/system/build.prop, /proc/cmdline).                   *)
(*                                                                         *)
(* C strings are sequences of one-character strings; memory is a sequence  *)
(* of bytes in which NUL is the terminator, so strncpy's padding, strtok's *)
(* in-place writes and strlen are modelled by what they do.                *)
(***************************************************************************)
EXTENDS Integers, Sequences, FiniteSets, TLC

\* ------------------------------------------------------------------------
\* Program constants (hybris/properties/properties.h, included at line 38)
\* ------------------------------------------------------------------------
PROP_NAME_MAX == 32
PROP_VALUE_MAX == 92
PROP_MSG_SETPROP == 1
PROP_MSG_GETPROP == 2
PROP_MSG_LISTPROP == 3
\* fgets(buf, 1024, f) stores at most 1023 characters
FGETS_MAX == 1023
\* read(fd, cmdline, 1023)
CMDLINE_MAX == 1023

\* ------------------------------------------------------------------------
\* Bounds of the model
\* ------------------------------------------------------------------------
\* full-size replies the service streams in one exchange
MaxReplies == 2
\* consecutive interruptions (EINTR) of one system call
MaxEintr == 1

\* ------------------------------------------------------------------------
\* Bytes and C strings
\* ------------------------------------------------------------------------
NUL == "NUL"
CR == "CR"
LF == "LF"
\* the null pointer, distinct from every C string (no character is "NULL")
NULL == <<"NULL">>

Rep(c, n) == [i \in 1..n |-> c]

\* index of the first occurrence of a byte of cs in mem at or after p, 0 if none
RECURSIVE IndexOf(_, _, _)
IndexOf(mem, p, cs) ==
    IF p > Len(mem) THEN 0
    ELSE IF mem[p] \in cs THEN p
    ELSE IndexOf(mem, p + 1, cs)

\* the position of the terminator of the C string starting at p
StrEnd(mem, p) ==
    LET e == IndexOf(mem, p, {NUL}) IN IF e = 0 THEN Len(mem) + 1 ELSE e

\* the C string that starts at p (what strlen, strcmp, strdup see)
CStrAt(mem, p) == SubSeq(mem, p, StrEnd(mem, p) - 1)
CStr(mem) == CStrAt(mem, 1)

\* strchr(mem + p - 1, c): position of c inside the C string at p, 0 if absent
Strchr(mem, p, c) ==
    LET i == IndexOf(mem, p, {c, NUL}) IN
    IF i # 0 /\ mem[i] = c THEN i ELSE 0

\* strncpy(dst, src, n): n bytes are written, src then NUL padding
Strncpy(dst, src, n) ==
    [i \in 1..(IF Len(dst) > n THEN Len(dst) ELSE n) |->
        IF i <= n THEN (IF i <= Len(src) THEN src[i] ELSE NUL) ELSE dst[i]]

\* strcpy(dst, src) / memcpy(dst, src, len + 1): src and its terminator
Strcpy(dst, src) ==
    [i \in 1..(IF Len(dst) > Len(src) + 1 THEN Len(dst) ELSE Len(src) + 1) |->
        IF i <= Len(src) THEN src[i]
        ELSE IF i = Len(src) + 1 THEN NUL ELSE dst[i]]

\* ------------------------------------------------------------------------
\* strtok(str, "="), on the memory the saved pointer designates.
\* tok = 0 is a NULL result; a found delimiter is overwritten with NUL.
\* ------------------------------------------------------------------------
RECURSIVE SkipDelim(_, _)
SkipDelim(mem, p) ==
    IF p <= Len(mem) /\ mem[p] = "=" THEN SkipDelim(mem, p + 1) ELSE p

Strtok(mem, p) ==
    LET start == SkipDelim(mem, p) IN
    IF start > Len(mem) \/ mem[start] = NUL
    THEN [tok |-> 0, save |-> start, mem |-> mem]
    ELSE LET e == IndexOf(mem, start, {"=", NUL}) IN
         IF e = 0 THEN [tok |-> start, save |-> Len(mem) + 1, mem |-> mem]
         ELSE IF mem[e] = NUL THEN [tok |-> start, save |-> e, mem |-> mem]
         ELSE [tok |-> start, save |-> e + 1, mem |-> [mem EXCEPT ![e] = NUL]]

\* ------------------------------------------------------------------------
\* find_key: /system/build.prop, read line by line
\* ------------------------------------------------------------------------
\* fgets(buf, 1024, f) at offset pos of the file: the line with its LF, or
\* FGETS_MAX characters, whichever ends first; <<>> at end of file
Fgets(file, pos) ==
    IF pos > Len(file) THEN <<>>
    ELSE LET nl == IndexOf(file, pos, {LF})
             last == IF nl = 0 THEN Len(file) ELSE nl
             lim == pos + FGETS_MAX - 1
         IN SubSeq(file, pos, IF last > lim THEN lim ELSE last)

\* lines 53-56: the first CR, then the first LF of what is left, become NUL
StripEol(buf) ==
    LET c == Strchr(buf, 1, CR)
        b1 == IF c # 0 THEN [buf EXCEPT ![c] = NUL] ELSE buf
        n == Strchr(b1, 1, LF)
    IN IF n # 0 THEN [b1 EXCEPT ![n] = NUL] ELSE b1

\* the buffer after fgets and the stripping of the line end
LineBuf(line) == StripEol(line \o <<NUL>>)

\* lines 58-70 on one line buffer: the value found for key, or NULL
MatchLine(buf, key) ==
    LET t1 == Strtok(buf, 1) IN
    IF t1.tok = 0 THEN NULL
    ELSE LET t2 == Strtok(t1.mem, t1.save) IN
         IF t2.tok = 0 THEN NULL
         ELSE IF key = CStrAt(t2.mem, t1.tok) THEN CStrAt(t2.mem, t2.tok)
         ELSE NULL

RECURSIVE FindKeyFrom(_, _, _)
FindKeyFrom(file, pos, key) ==
    LET line == Fgets(file, pos) IN
    IF line = <<>> THEN NULL
    ELSE LET v == MatchLine(LineBuf(line), key) IN
         IF v # NULL THEN v ELSE FindKeyFrom(file, pos + Len(line), key)

\* find_key(key); file = NULL when fopen fails
find_key(file, key) ==
    IF file = NULL THEN NULL ELSE FindKeyFrom(file, 1, key)

\* ------------------------------------------------------------------------
\* find_key_kernel_cmdline: /proc/cmdline
\* ------------------------------------------------------------------------
ANDROIDBOOT == <<"a", "n", "d", "r", "o", "i", "d", "b", "o", "o", "t", ".">>
RO == <<"r", "o", ".">>

\* lines 85-97: at most 1023 bytes, one trailing newline dropped;
\* file = NULL when open fails
ReadCmdline(file) ==
    IF file = NULL THEN <<NUL>>
    ELSE LET n0 == IF Len(file) > CMDLINE_MAX THEN CMDLINE_MAX ELSE Len(file)
             n == IF n0 > 0 /\ file[n0] = LF THEN n0 - 1 ELSE n0
         IN SubSeq(file, 1, n) \o <<NUL>>

\* snprintf(prop, sizeof(prop), "ro.%s", boot_prop_name)
Snprintf_ro(suffix) ==
    LET full == RO \o suffix IN
    IF Len(full) > PROP_NAME_MAX - 1 THEN SubSeq(full, 1, PROP_NAME_MAX - 1)
    ELSE full

\* strncmp(name, "androidboot.", 12) == 0
HasBootPrefix(name) ==
    Len(name) >= 12 /\ SubSeq(name, 1, 12) = ANDROIDBOOT

\* lines 101-122, from the token at ptr (ptr = 0 is the null pointer)
RECURSIVE CmdlineFrom(_, _, _)
CmdlineFrom(mem, ptr, key) ==
    IF ptr = 0 \/ mem[ptr] = NUL THEN NULL
    ELSE LET x == Strchr(mem, ptr, " ")
             m1 == IF x # 0 THEN [mem EXCEPT ![x] = NUL] ELSE mem
             next == IF x # 0 THEN x + 1 ELSE 0
             eq == Strchr(m1, ptr, "=")
             name_len == Len(CStrAt(m1, ptr))
         IN IF eq = 0 THEN CmdlineFrom(m1, next, key)
            ELSE LET m2 == [m1 EXCEPT ![eq] = NUL]
                     name == CStrAt(m2, ptr)
                     value == CStrAt(m2, eq + 1)
                 IN IF name_len = 0 THEN CmdlineFrom(m2, next, key)
                    ELSE IF HasBootPrefix(name) /\ name_len > 12
                              /\ Snprintf_ro(SubSeq(name, 13, Len(name))) = key
                         THEN value
                         ELSE CmdlineFrom(m2, next, key)

find_key_kernel_cmdline(file, key) == CmdlineFrom(ReadCmdline(file), 1, key)

\* ------------------------------------------------------------------------
\* The envelope (prop_msg_t) and the inputs of the calls
\* ------------------------------------------------------------------------
\* sizeof(msg.cmd)
SizeofCmd == 4
\* sizeof(prop_msg_t): the command word and the two buffers
SizeofMsg == SizeofCmd + PROP_NAME_MAX + PROP_VALUE_MAX
\* a reply that stops after the command word
ShortLen == SizeofCmd

\* memset(&msg, 0, sizeof(msg)); msg.cmd = cmd
ZeroMsg(cmd) ==
    [cmd |-> cmd, name |-> Rep(NUL, PROP_NAME_MAX), value |-> Rep(NUL, PROP_VALUE_MAX)]

K_A == <<"r", "o", ".", "a">>
K_B == <<"r", "o", ".", "b">>
KeyMax == Rep("k", PROP_NAME_MAX - 1)
KeyTooLong == Rep("k", PROP_NAME_MAX)
V2 == <<"2">>
ValMax == Rep("v", PROP_VALUE_MAX - 1)
ValTooLong == Rep("v", PROP_VALUE_MAX)
D1 == <<"d">>

GetKeys == {K_A, K_B, KeyMax, KeyTooLong}
SetKeys == {KeyMax, KeyTooLong}
SetValues == {NULL, <<>>, ValMax, ValTooLong}
Defaults == {NULL, <<>>, D1, ValTooLong}
\* the keys the service stores (every key that passes the length check)
StoreKeys == {K_A, K_B, KeyMax}
\* what the caller's value buffer holds before the call
OldBuf == Strncpy(<<>>, <<"o", "l", "d">>, PROP_VALUE_MAX)

\* /system/build.prop and /proc/cmdline as the call may find them
BuildProp1 ==
    <<"r", "o", ".", "a", "=", "1", CR, LF,
      "m", "a", "l", "f", "o", "r", "m", "e", "d", LF,
      "r", "o", ".", "c", "=", "x", "=", "y", LF>>
BuildProps == {NULL, BuildProp1}
Cmdline1 ==
    ANDROIDBOOT \o <<"a", "=", "9", " ">> \o ANDROIDBOOT
        \o <<"b", "=", "8", " ", "c", "o", "n", "s", "o", "l", "e", "=", "t", LF>>
Cmdlines == {NULL, Cmdline1}

\* ------------------------------------------------------------------------
\* State
\* ------------------------------------------------------------------------
VARIABLES
    pc,             \* where the current call stands
    op,             \* "none", "get", "set", "list"
    key,            \* argument key
    default_value,  \* argument default_value of property_get (or NULL)
    setvalue,       \* argument value of property_set (or NULL)
    value,          \* the memory at property_get's value pointer
    msg,            \* the prop_msg_t of the call
    s,              \* the socket: "none", "open", "closed"
    nsock,          \* sockets created by this call
    nclose,         \* close(s) calls of this call
    sent,           \* envelopes this call has sent in full
    r,              \* send_prop_msg's r
    patched_init,   \* send_prop_msg's patched_init
    result,         \* what send_prop_msg returned
    how,            \* the path on which send_prop_msg returned
    replies,        \* the full-size replies received in this exchange
    cbs,            \* the invocations of propfn, in order
    eintr,          \* the system calls of this call a signal interrupted
    neintr,         \* consecutive interruptions of the current system call
    nfile,          \* times this call opened /system/build.prop
    ncmd,           \* times this call opened /proc/cmdline
    ret,            \* what the public call returned
    store,          \* the service's property store (NULL: never set)
    buildprop,      \* contents of /system/build.prop (NULL: cannot be opened)
    cmdline,        \* contents of /proc/cmdline (NULL: cannot be opened)
    t_pc,           \* per thread inside find_key: where it stands
    t_key,          \* per thread: the key it looks for
    t_pos,          \* per thread: the offset of its FILE
    t_buf,          \* per thread: find_key's buf
    t_mkey,         \* per thread: find_key's mkey (a position in buf)
    t_found,        \* per thread: what find_key returned
    t_value,        \* per thread: the string property_get handed back
    olds,           \* strtok's saved pointer: the buffer's owner and a position
    l_pc,           \* a lookup in a static source alone: where it stands
    l_key,          \* the key it looks for
    l_found         \* what find_key or find_key_kernel_cmdline returned

vars == <<pc, op, key, default_value, setvalue, value, msg, s, nsock, nclose,
          sent, r, patched_init, result, how, replies, cbs, eintr, neintr,
          nfile, ncmd, ret, store, buildprop, cmdline,
          t_pc, t_key, t_pos, t_buf, t_mkey, t_found, t_value, olds,
          l_pc, l_key, l_found>>

files == <<buildprop, cmdline>>
threads == <<t_pc, t_key, t_pos, t_buf, t_mkey, t_found, t_value, olds>>
lookup == <<l_pc, l_key, l_found>>
env == <<store, files, threads, lookup>>
client == <<pc, op, key, default_value, setvalue, value, msg, s, nsock, nclose,
            sent, r, patched_init, result, how, replies, cbs, eintr, neintr,
            nfile, ncmd, ret, store>>

\* the threads of the concurrent calls
Threads == {1, 2}

\* no thread is inside a call
NoThreads ==
    /\ t_pc = [t \in Threads |-> "off"]
    /\ t_key = [t \in Threads |-> NULL]
    /\ t_pos = [t \in Threads |-> 1]
    /\ t_buf = [t \in Threads |-> <<NUL>>]
    /\ t_mkey = [t \in Threads |-> 0]
    /\ t_found = [t \in Threads |-> NULL]
    /\ t_value = [t \in Threads |-> NULL]
    /\ olds = [owner |-> 0, pos |-> 0]

\* no lookup is under way
NoLookup == l_pc = "off" /\ l_key = NULL /\ l_found = NULL

args == <<op, key, default_value, setvalue>>

\* the state of a client that is not inside a call
Idle ==
    /\ pc = "idle" /\ op = "none"
    /\ key = NULL /\ default_value = NULL /\ setvalue = NULL
    /\ value = OldBuf
    /\ msg = ZeroMsg(0)
    /\ s = "none" /\ nsock = 0 /\ nclose = 0
    /\ sent = <<>> /\ r = 0 /\ patched_init = 0 /\ result = -1
    /\ how = "none" /\ replies = <<>> /\ cbs = <<>>
    /\ eintr = {} /\ neintr = 0 /\ nfile = 0 /\ ncmd = 0 /\ ret = 0

Init ==
    /\ Idle
    /\ store = [k \in StoreKeys |-> NULL]
    /\ buildprop \in BuildProps
    /\ cmdline \in Cmdlines
    /\ NoThreads
    /\ NoLookup

\* ------------------------------------------------------------------------
\* The public calls, up to the socket() of send_prop_msg
\* ------------------------------------------------------------------------
\* property_get with > for >= in the check of line 243
property_get_offbyone(k, d) ==
    /\ pc = "idle"
    /\ op' = "get" /\ key' = k /\ default_value' = d
    /\ IF k # NULL /\ Len(k) > PROP_NAME_MAX
       THEN /\ ret' = -1 /\ pc' = "done" /\ msg' = msg
       ELSE /\ msg' = [ZeroMsg(PROP_MSG_GETPROP) EXCEPT
                          !.name = Strncpy(@, k, PROP_NAME_MAX)]
            /\ pc' = "socket" /\ ret' = ret
    /\ UNCHANGED <<setvalue, value, s, nsock, nclose, sent, r, patched_init,
                   result, how, replies, cbs, eintr, neintr, nfile, ncmd, env>>

\* property_get, lines 243-245, and property_get_socket, lines 217-222
property_get(k, d) ==
    /\ pc = "idle"
    /\ op' = "get" /\ key' = k /\ default_value' = d
    /\ IF k # NULL /\ Len(k) >= PROP_NAME_MAX
       THEN /\ ret' = -1 /\ pc' = "done" /\ msg' = msg
       ELSE /\ msg' = [ZeroMsg(PROP_MSG_GETPROP) EXCEPT
                          !.name = Strncpy(@, k, PROP_NAME_MAX)]
            /\ pc' = "socket" /\ ret' = ret
    /\ UNCHANGED <<setvalue, value, s, nsock, nclose, sent, r, patched_init,
                   result, how, replies, cbs, eintr, neintr, nfile, ncmd, env>>

\* property_set with > for >= in the checks of lines 279-280
property_set_offbyone(k, v) ==
    /\ pc = "idle"
    /\ op' = "set" /\ key' = k /\ setvalue' = v
    /\ LET val == IF v = NULL THEN <<>> ELSE v IN
       IF k = NULL \/ Len(k) > PROP_NAME_MAX \/ Len(val) > PROP_VALUE_MAX
       THEN /\ ret' = -1 /\ pc' = "done" /\ msg' = msg
       ELSE /\ msg' = [ZeroMsg(PROP_MSG_SETPROP) EXCEPT
                          !.name = Strncpy(@, k, PROP_NAME_MAX),
                          !.value = Strncpy(@, val, PROP_VALUE_MAX)]
            /\ pc' = "socket" /\ ret' = ret
    /\ UNCHANGED <<default_value, value, s, nsock, nclose, sent, r,
                   patched_init, result, how, replies, cbs, eintr, neintr,
                   nfile, ncmd, env>>

\* property_set, lines 277-287
property_set(k, v) ==
    /\ pc = "idle"
    /\ op' = "set" /\ key' = k /\ setvalue' = v
    /\ LET val == IF v = NULL THEN <<>> ELSE v IN
       IF k = NULL \/ Len(k) >= PROP_NAME_MAX \/ Len(val) >= PROP_VALUE_MAX
       THEN /\ ret' = -1 /\ pc' = "done" /\ msg' = msg
       ELSE /\ msg' = [ZeroMsg(PROP_MSG_SETPROP) EXCEPT
                          !.name = Strncpy(@, k, PROP_NAME_MAX),
                          !.value = Strncpy(@, val, PROP_VALUE_MAX)]
            /\ pc' = "socket" /\ ret' = ret
    /\ UNCHANGED <<default_value, value, s, nsock, nclose, sent, r,
                   patched_init, result, how, replies, cbs, eintr, neintr,
                   nfile, ncmd, env>>

\* property_list, lines 200-203
property_list ==
    /\ pc = "idle"
    /\ op' = "list"
    /\ msg' = ZeroMsg(PROP_MSG_LISTPROP)
    /\ pc' = "socket"
    /\ UNCHANGED <<key, default_value, setvalue, value, s, nsock, nclose,
                   sent, r, patched_init, result, how, replies, cbs, eintr,
                   neintr, nfile, ncmd, ret, env>>

\* ------------------------------------------------------------------------
\* send_prop_msg, one action per system call
\* ------------------------------------------------------------------------
EINTR == "EINTR"
EOTHER == "EOTHER"

\* TEMP_FAILURE_RETRY(exp): exp is evaluated again while it yields -1 with
\* errno = EINTR
TEMP_FAILURE_RETRY(exp, errno) == exp = -1 /\ errno = EINTR

\* line 156: the macro's argument is the comparison connect(...) < 0
ConnectExp(rc) == IF rc < 0 THEN 1 ELSE 0
\* line 161: the macro's argument is send(...)
SendExp(rc) == rc

\* close(s), lines 157, 171, 190
Close == s' = "closed" /\ nclose' = nclose + 1

\* line 144: socket(); s < 0 returns at line 146
Socket(ok) ==
    /\ pc = "socket"
    /\ IF ok
       THEN /\ s' = "open" /\ nsock' = nsock + 1 /\ pc' = "connect"
            /\ UNCHANGED <<result, how>>
       ELSE /\ result' = -1 /\ how' = "nosock" /\ pc' = "resume"
            /\ UNCHANGED <<s, nsock>>
    /\ UNCHANGED <<args, value, msg, nclose, sent, r, patched_init, replies,
                   cbs, eintr, neintr, nfile, ncmd, ret, env>>

\* lines 156-159: rc and errno are what connect() yields
Connect(rc, errno) ==
    /\ pc = "connect"
    /\ errno = EINTR => neintr < MaxEintr
    /\ eintr' = IF rc < 0 /\ errno = EINTR THEN eintr \cup {"connect"} ELSE eintr
    /\ IF TEMP_FAILURE_RETRY(ConnectExp(rc), errno)
       THEN /\ neintr' = neintr + 1
            /\ UNCHANGED <<pc, s, nclose, result, how>>
       ELSE /\ neintr' = 0
            /\ IF ConnectExp(rc) # 0
               THEN /\ Close /\ result' = -1 /\ how' = "connect" /\ pc' = "resume"
               ELSE /\ pc' = "send" /\ UNCHANGED <<s, nclose, result, how>>
    /\ UNCHANGED <<args, value, msg, nsock, sent, r, patched_init, replies,
                   cbs, nfile, ncmd, ret, env>>

\* the service takes a SET envelope it has received in full
Stored(m) ==
    IF m.cmd = PROP_MSG_SETPROP /\ CStr(m.name) \in StoreKeys
    THEN [store EXCEPT ![CStr(m.name)] = CStr(m.value)]
    ELSE store

\* lines 161-163 and, when the send fell short, 190-191
Send(rc, errno) ==
    /\ pc = "send"
    /\ errno = EINTR => neintr < MaxEintr
    /\ eintr' = IF rc < 0 /\ errno = EINTR THEN eintr \cup {"send"} ELSE eintr
    /\ IF TEMP_FAILURE_RETRY(SendExp(rc), errno)
       THEN /\ neintr' = neintr + 1
            /\ UNCHANGED <<pc, s, nclose, result, how, r, sent, store>>
       ELSE /\ neintr' = 0
            /\ r' = SendExp(rc)
            /\ IF SendExp(rc) = SizeofMsg
               THEN /\ sent' = Append(sent, msg)
                    /\ store' = Stored(msg)
                    /\ pc' = "recv"
                    /\ UNCHANGED <<s, nclose, result, how>>
               ELSE /\ Close /\ result' = -1 /\ how' = "send" /\ pc' = "resume"
                    /\ UNCHANGED <<sent, store>>
    /\ UNCHANGED <<args, value, msg, nsock, patched_init, replies, cbs, nfile,
                   ncmd, ret, files, threads, lookup>>

\* the reply of a service that answers the request from its store
Echo ==
    LET req == IF sent = <<>> THEN msg ELSE sent[1]
        k == CStr(req.name)
    IN [cmd |-> req.cmd, name |-> req.name,
        value |-> Strncpy(Rep(NUL, PROP_VALUE_MAX),
                          IF k \in StoreKeys /\ store[k] # NULL THEN store[k]
                          ELSE <<>>,
                          PROP_VALUE_MAX)]

\* another envelope a service may send
OtherReply ==
    [cmd |-> PROP_MSG_SETPROP,
     name |-> Strncpy(Rep(NUL, PROP_NAME_MAX), K_B, PROP_NAME_MAX),
     value |-> Strncpy(Rep(NUL, PROP_VALUE_MAX), V2, PROP_VALUE_MAX)]

\* RecvReply that does not report an entry it has reported before
RecvReply_dedup(m) ==
    /\ pc = "recv"
    /\ Len(replies) < MaxReplies
    /\ r' = SizeofMsg
    /\ msg' = m
    /\ patched_init' = 1
    /\ replies' = Append(replies, m)
    /\ cbs' = IF op = "list"
                 /\ \A i \in 1..Len(cbs) : cbs[i] # <<CStr(m.name), CStr(m.value)>>
              THEN Append(cbs, <<CStr(m.name), CStr(m.value)>>)
              ELSE cbs
    /\ UNCHANGED <<pc, args, value, s, nsock, nclose, sent, result, how, eintr,
                   neintr, nfile, ncmd, ret, env>>

\* RecvReply that receives later replies into a buffer of their own
RecvReply_keepfirst(m) ==
    /\ pc = "recv"
    /\ Len(replies) < MaxReplies
    /\ r' = SizeofMsg
    /\ msg' = IF replies = <<>> THEN m ELSE msg
    /\ patched_init' = 1
    /\ replies' = Append(replies, m)
    /\ cbs' = IF op = "list" THEN Append(cbs, <<CStr(m.name), CStr(m.value)>>)
              ELSE cbs
    /\ UNCHANGED <<pc, args, value, s, nsock, nclose, sent, result, how, eintr,
                   neintr, nfile, ncmd, ret, env>>

\* RecvReply that returns success once a reply has arrived, without waiting
\* for the service to close
RecvReply_return(m) ==
    /\ pc = "recv"
    /\ Len(replies) < MaxReplies
    /\ r' = SizeofMsg
    /\ msg' = m
    /\ patched_init' = 1
    /\ replies' = Append(replies, m)
    /\ cbs' = IF op = "list" THEN Append(cbs, <<CStr(m.name), CStr(m.value)>>)
              ELSE cbs
    /\ Close /\ result' = 0 /\ how' = "closed" /\ pc' = "resume"
    /\ UNCHANGED <<args, value, nsock, sent, eintr, neintr, nfile, ncmd, ret,
                   env>>

\* lines 169-181, one full-size reply: recv() yields sizeof(prop_msg_t)
RecvReply(m) ==
    /\ pc = "recv"
    /\ Len(replies) < MaxReplies
    /\ r' = SizeofMsg
    /\ msg' = m
    /\ patched_init' = 1
    /\ replies' = Append(replies, m)
    /\ cbs' = IF op = "list" THEN Append(cbs, <<CStr(m.name), CStr(m.value)>>)
              ELSE cbs
    /\ UNCHANGED <<pc, args, value, s, nsock, nclose, sent, result, how, eintr,
                   neintr, nfile, ncmd, ret, env>>

\* RecvShort without the close(s) of line 171
RecvShort_noclose(cmd) ==
    /\ pc = "recv"
    /\ r' = ShortLen
    /\ msg' = [msg EXCEPT !.cmd = cmd]
    /\ result' = -1 /\ how' = "badlen" /\ pc' = "resume"
    /\ UNCHANGED <<args, value, s, nclose, nsock, sent, patched_init, replies,
                   cbs, eintr, neintr, nfile, ncmd, ret, env>>

\* RecvShort that breaks out of the loop to line 184 instead of returning
RecvShort_break(cmd) ==
    /\ pc = "recv"
    /\ r' = ShortLen
    /\ msg' = [msg EXCEPT !.cmd = cmd]
    /\ Close /\ how' = "badlen" /\ pc' = "resume"
    /\ result' = IF patched_init # 0 \/ cmd = PROP_MSG_SETPROP THEN 0 ELSE -1
    /\ UNCHANGED <<args, value, nsock, sent, patched_init, replies, cbs, eintr,
                   neintr, nfile, ncmd, ret, env>>

\* lines 169-173: recv() yields fewer bytes than an envelope
RecvShort(cmd) ==
    /\ pc = "recv"
    /\ r' = ShortLen
    /\ msg' = [msg EXCEPT !.cmd = cmd]
    /\ Close /\ result' = -1 /\ how' = "badlen" /\ pc' = "resume"
    /\ UNCHANGED <<args, value, nsock, sent, patched_init, replies, cbs, eintr,
                   neintr, nfile, ncmd, ret, env>>

\* RecvEnd without the SETPROP case of line 185
RecvEnd_patchedonly(rc, errno) ==
    /\ pc = "recv"
    /\ rc \in {0, -1}
    /\ errno = EINTR => rc < 0
    /\ r' = rc
    /\ eintr' = IF rc < 0 /\ errno = EINTR THEN eintr \cup {"recv"} ELSE eintr
    /\ result' = IF rc >= 0 /\ patched_init # 0 THEN 0 ELSE -1
    /\ how' = IF rc >= 0 THEN "closed" ELSE "recv"
    /\ Close
    /\ pc' = "resume"
    /\ UNCHANGED <<args, value, msg, nsock, sent, patched_init, replies, cbs,
                   neintr, nfile, ncmd, ret, env>>

\* RecvEnd that takes every clean close for success
RecvEnd_anyclose(rc, errno) ==
    /\ pc = "recv"
    /\ rc \in {0, -1}
    /\ errno = EINTR => rc < 0
    /\ r' = rc
    /\ eintr' = IF rc < 0 /\ errno = EINTR THEN eintr \cup {"recv"} ELSE eintr
    /\ result' = IF rc >= 0 THEN 0 ELSE -1
    /\ how' = IF rc >= 0 THEN "closed" ELSE "recv"
    /\ Close
    /\ pc' = "resume"
    /\ UNCHANGED <<args, value, msg, nsock, sent, patched_init, replies, cbs,
                   neintr, nfile, ncmd, ret, env>>

\* lines 169, 184-191: recv() yields 0 (the service closed) or -1
RecvEnd(rc, errno) ==
    /\ pc = "recv"
    /\ rc \in {0, -1}
    /\ errno = EINTR => rc < 0
    /\ r' = rc
    /\ eintr' = IF rc < 0 /\ errno = EINTR THEN eintr \cup {"recv"} ELSE eintr
    /\ result' = IF rc >= 0 /\ (patched_init # 0 \/ msg.cmd = PROP_MSG_SETPROP)
                 THEN 0 ELSE -1
    /\ how' = IF rc >= 0 THEN "closed" ELSE "recv"
    /\ Close
    /\ pc' = "resume"
    /\ UNCHANGED <<args, value, msg, nsock, sent, patched_init, replies, cbs,
                   neintr, nfile, ncmd, ret, env>>

\* ------------------------------------------------------------------------
\* The public calls, after send_prop_msg has returned
\* ------------------------------------------------------------------------
\* ApplyDefault without the strlen(msg.value) == 0 test of line 228
ApplyDefault_always(mvalue, d) ==
    IF d # NULL
    THEN IF Len(d) >= PROP_VALUE_MAX THEN NULL ELSE Strcpy(mvalue, d)
    ELSE mvalue

\* property_get_socket, lines 228-232: msg.value after the default is applied;
\* NULL when line 229 returns -1
ApplyDefault(mvalue, d) ==
    IF Len(CStr(mvalue)) = 0 /\ d # NULL
    THEN IF Len(d) >= PROP_VALUE_MAX THEN NULL ELSE Strcpy(mvalue, d)
    ELSE mvalue

\* property_get_socket copying sizeof(msg.name) bytes at line 234
property_get_socket_namesize(err, mvalue, d, buf) ==
    IF err < 0 THEN NULL
    ELSE LET mv == ApplyDefault(mvalue, d) IN
         IF mv = NULL THEN NULL ELSE Strncpy(buf, mv, PROP_NAME_MAX)

\* property_get_socket, lines 223-236: the value buffer it leaves, or NULL
\* when it returns an error
property_get_socket(err, mvalue, d, buf) ==
    IF err < 0 THEN NULL
    ELSE LET mv == ApplyDefault(mvalue, d) IN
         IF mv = NULL THEN NULL ELSE Strncpy(buf, mv, PROP_VALUE_MAX)

\* StaticLookup that asks /proc/cmdline before /system/build.prop
StaticLookup_cmdfirst(k) ==
    LET c == find_key_kernel_cmdline(cmdline, k) IN
    IF c # NULL THEN [found |-> c, cmd |-> TRUE]
    ELSE [found |-> find_key(buildprop, k), cmd |-> TRUE]

\* property_get, lines 253-256: the string found in the static sources
\* (NULL if none) and whether /proc/cmdline was read
StaticLookup(k) ==
    LET f == find_key(buildprop, k) IN
    IF f # NULL THEN [found |-> f, cmd |-> FALSE]
    ELSE [found |-> find_key_kernel_cmdline(cmdline, k), cmd |-> TRUE]

\* property_get, lines 258-269: the value buffer after the fallback
\* (line 266 assigns the local pointer, the buffer is not written)
Fallback(found, d, buf) ==
    IF found # NULL THEN Strcpy(buf, found)
    ELSE IF d # NULL THEN Strcpy(buf, d)
    ELSE buf

\* lines 258-269: the return code of the fallback
FallbackRet(found, d, buf) ==
    IF found # NULL \/ d # NULL THEN Len(CStr(Fallback(found, d, buf))) ELSE 0

\* property_get, lines 245-270, and property_get_socket, lines 223-236
property_get_return ==
    /\ pc = "resume" /\ op = "get"
    /\ LET got == property_get_socket(result, msg.value, default_value, value) IN
       IF got # NULL
       THEN /\ value' = got
            /\ ret' = Len(CStr(got))
            /\ UNCHANGED <<nfile, ncmd>>
       ELSE LET st == StaticLookup(key) IN
            /\ nfile' = nfile + 1
            /\ ncmd' = IF st.cmd THEN ncmd + 1 ELSE ncmd
            /\ value' = Fallback(st.found, default_value, value)
            /\ ret' = FallbackRet(st.found, default_value, value)
    /\ pc' = "done"
    /\ UNCHANGED <<args, msg, s, nsock, nclose, sent, r, patched_init, result,
                   how, replies, cbs, eintr, neintr, env>>

\* property_set_return that drops err
property_set_return_ok ==
    /\ pc = "resume" /\ op = "set"
    /\ ret' = 0
    /\ pc' = "done"
    /\ UNCHANGED <<args, value, msg, s, nsock, nclose, sent, r, patched_init,
                   result, how, replies, cbs, eintr, neintr, nfile, ncmd, env>>

\* property_set, lines 287-292
property_set_return ==
    /\ pc = "resume" /\ op = "set"
    /\ ret' = IF result < 0 THEN result ELSE 0
    /\ pc' = "done"
    /\ UNCHANGED <<args, value, msg, s, nsock, nclose, sent, r, patched_init,
                   result, how, replies, cbs, eintr, neintr, nfile, ncmd, env>>

\* property_list, lines 203-208
property_list_return ==
    /\ pc = "resume" /\ op = "list"
    /\ ret' = IF result < 0 THEN result ELSE 0
    /\ pc' = "done"
    /\ UNCHANGED <<args, value, msg, s, nsock, nclose, sent, r, patched_init,
                   result, how, replies, cbs, eintr, neintr, nfile, ncmd, env>>

\* the caller takes the result; the next call starts from fresh locals
Return ==
    /\ pc = "done"
    /\ pc' = "idle" /\ op' = "none"
    /\ key' = NULL /\ default_value' = NULL /\ setvalue' = NULL
    /\ value' = OldBuf
    /\ msg' = ZeroMsg(0)
    /\ s' = "none" /\ nsock' = 0 /\ nclose' = 0
    /\ sent' = <<>> /\ r' = 0 /\ patched_init' = 0 /\ result' = -1
    /\ how' = "none" /\ replies' = <<>> /\ cbs' = <<>>
    /\ eintr' = {} /\ neintr' = 0 /\ nfile' = 0 /\ ncmd' = 0 /\ ret' = 0
    /\ UNCHANGED env

Next ==
    \/ \E k \in GetKeys, d \in Defaults : property_get(k, d)
    \/ \E k \in SetKeys, v \in SetValues : property_set(k, v)
    \/ property_list
    \/ \E ok \in BOOLEAN : Socket(ok)
    \/ \E c \in {<<0, EOTHER>>, <<-1, EOTHER>>, <<-1, EINTR>>} : Connect(c[1], c[2])
    \/ \E c \in {<<SizeofMsg, EOTHER>>, <<ShortLen, EOTHER>>, <<-1, EOTHER>>,
                 <<-1, EINTR>>} : Send(c[1], c[2])
    \/ \E m \in {Echo, OtherReply} : RecvReply(m)
    \/ RecvShort(PROP_MSG_SETPROP)
    \/ \E c \in {<<0, EOTHER>>, <<-1, EOTHER>>, <<-1, EINTR>>} : RecvEnd(c[1], c[2])
    \/ property_get_return
    \/ property_set_return
    \/ property_list_return
    \/ Return

Spec == Init /\ [][Next]_vars

\* ------------------------------------------------------------------------
\* Properties
\* ------------------------------------------------------------------------
\* send_prop_msg has returned to the public call
Returned == pc \in {"resume", "done"} /\ how # "none"
\* the exchange of the current call has failed
ExchangeFailed == Returned /\ result < 0
\* the command the call put into its request
OrigCmd ==
    IF op = "set" THEN PROP_MSG_SETPROP
    ELSE IF op = "get" THEN PROP_MSG_GETPROP ELSE PROP_MSG_LISTPROP

\* C1: once send_prop_msg has created the socket, it closes it exactly once
\* before it returns, on every exit path; it never closes twice, never
\* leaves it open, and closes nothing when no socket was created.
C1_ClosedExactlyOnce ==
    /\ nclose <= nsock /\ nsock <= 1
    /\ pc \in {"connect", "send", "recv"} => s = "open" /\ nclose = 0
    /\ Returned => IF how = "nosock" THEN s = "none" /\ nclose = 0
                   ELSE s = "closed" /\ nsock = 1 /\ nclose = 1

C1_Witness ==
    pc = "resume" /\ how = "badlen" /\ s = "closed" /\ nclose = 1

\* C2: send_prop_msg returns 0 exactly when the whole envelope was sent, the
\* receive loop ended with a clean close, and either a full-size reply had
\* arrived or the request was a SETPROP.
C2_SuccessIff ==
    Returned =>
        (result = 0 <=>
            /\ Len(sent) = 1
            /\ how = "closed"
            /\ (Len(replies) >= 1 \/ OrigCmd = PROP_MSG_SETPROP))

C2_Witness ==
    pc = "resume" /\ op = "set" /\ how = "closed" /\ replies = <<>> /\ result = 0

\* a LIST exchange in which the service took the request, sent no entry and
\* closed the connection cleanly, after property_list has returned
EmptyList ==
    pc = "done" /\ op = "list" /\ Len(sent) = 1 /\ how = "closed" /\ replies = <<>>

\* C3 as stated: the empty listing invokes no callback and reports success.
C3_EmptyListSucceeds == EmptyList => cbs = <<>> /\ ret = 0

\* C3 as amended: the empty listing invokes no callback and property_list
\* returns -1, a clean close without any reply being success for SETPROP only.
C3_EmptyListFails == EmptyList => cbs = <<>> /\ ret = -1

C3_Witness == EmptyList /\ cbs = <<>> /\ ret = -1

\* property_get has returned after an exchange that failed
GetFellBack == pc = "done" /\ op = "get" /\ ExchangeFailed

\* C4: when the exchange of get fails the value is the one of build.prop if
\* it has a matching line (and /proc/cmdline is then not read), otherwise the
\* one of the kernel command line, otherwise the default that was supplied.
C4_FallbackOrder ==
    GetFellBack =>
        LET f == find_key(buildprop, key)
            c == find_key_kernel_cmdline(cmdline, key)
        IN /\ nfile = 1
           /\ IF f # NULL THEN CStr(value) = f /\ ncmd = 0 /\ ret = Len(f)
              ELSE IF c # NULL THEN CStr(value) = c /\ ncmd = 1 /\ ret = Len(c)
              ELSE default_value # NULL =>
                     CStr(value) = default_value /\ ret = Len(default_value)

C4_Witness ==
    /\ GetFellBack /\ key = K_A
    /\ find_key(buildprop, key) = <<"1">>
    /\ find_key_kernel_cmdline(cmdline, key) = <<"9">>
    /\ CStr(value) = <<"1">> /\ ncmd = 0

\* C5: after a total miss without a default (the exchange failed, no static
\* source has the key, default_value is NULL) the caller's buffer holds the
\* empty string.
C5_EmptyOnTotalMiss ==
    /\ GetFellBack /\ default_value = NULL
    /\ find_key(buildprop, key) = NULL
    /\ find_key_kernel_cmdline(cmdline, key) = NULL
    => CStr(value) = <<>>

\* the call was given a key or a value that is too long
Oversized ==
    \/ op = "get" /\ Len(key) >= PROP_NAME_MAX
    \/ op = "set" /\ Len(key) >= PROP_NAME_MAX
    \/ op = "set" /\ setvalue # NULL /\ Len(setvalue) >= PROP_VALUE_MAX

\* C6: a call with an oversized key or value returns -1 having created no
\* socket, built and sent no envelope and read no static source; a set whose
\* value is NULL is a set of the empty value and is not rejected.
C6_LengthChecksFirst ==
    /\ Oversized =>
          /\ pc = "done" /\ ret = -1
          /\ s = "none" /\ nsock = 0 /\ sent = <<>> /\ msg = ZeroMsg(0)
          /\ nfile = 0 /\ ncmd = 0 /\ value = OldBuf
    /\ op = "set" /\ setvalue = NULL /\ Len(key) < PROP_NAME_MAX =>
          /\ pc = "socket" => msg.cmd = PROP_MSG_SETPROP
                              /\ msg.value = Rep(NUL, PROP_VALUE_MAX)
          /\ pc = "done" /\ ret = -1 => ExchangeFailed
          /\ pc = "done" /\ Len(sent) = 1 /\ how = "closed" => ret = 0
    /\ \A i \in 1..Len(sent) :
          /\ ~Oversized
          /\ op \in {"get", "set"} => CStr(sent[i].name) = key
          /\ op = "set" =>
                CStr(sent[i].value) = (IF setvalue = NULL THEN <<>> ELSE setvalue)

C6_Witness ==
    op = "set" /\ key = KeyMax /\ setvalue = ValTooLong /\ pc = "done" /\ ret = -1

\* the call has returned after a reply of wrong length
BadLength == pc = "done" /\ how = "badlen"

\* C7 as stated: a reply of wrong length makes list and get return an error.
C7_BadLengthFailsBoth ==
    BadLength /\ op \in {"get", "list"} =>
        ret < 0 /\ Len(cbs) = (IF op = "list" THEN Len(replies) ELSE 0)

\* C7 as amended: a reply of wrong length makes the exchange fail; list
\* returns -1, while get falls back to the static sources and the default
\* and returns a length, not an error; the callback has been invoked for
\* the full-size replies before it only.
C7_BadLengthFailsExchange ==
    BadLength /\ op \in {"get", "list"} =>
        /\ result = -1
        /\ op = "list" => ret = -1 /\ Len(cbs) = Len(replies)
        /\ op = "get" => ret >= 0 /\ nfile = 1 /\ cbs = <<>>

C7_Witness ==
    BadLength /\ op = "list" /\ Len(replies) = 1 /\ Len(cbs) = 1 /\ ret = -1

\* C9: an interrupted connect, send or recv is retried and is not the reason
\* for which send_prop_msg takes its failure path.
C9_EintrIsTransparent ==
    Returned =>
        /\ ~(how = "connect" /\ "connect" \in eintr)
        /\ ~(how = "recv" /\ "recv" \in eintr)

\* a GET exchange with a live service: it took the request, sent the one
\* reply that holds what it stores for the key, and closed
LiveGet ==
    /\ pc = "done" /\ op = "get"
    /\ Len(sent) = 1 /\ how = "closed" /\ replies = <<Echo>>
    /\ store[key] # NULL

\* a set that the live service took and that returned success
LiveSet == pc = "done" /\ op = "set" /\ ret = 0

\* C10 as stated: after set(k, v) the service holds v, and a get of k through
\* a live transport returns v with return code len(v), whatever the default.
C10_RoundTrip ==
    /\ LiveSet => store[key] = (IF setvalue = NULL THEN <<>> ELSE setvalue)
    /\ LiveGet => CStr(value) = store[key] /\ ret = Len(store[key])

\* C10 as amended: the same when v is not empty or no default (or an empty
\* one) is supplied; when v is empty and a default d with len(d) < N2 is
\* supplied, get returns d with return code len(d).
C10_RoundTripUnlessDefault ==
    /\ LiveSet => store[key] = (IF setvalue = NULL THEN <<>> ELSE setvalue)
    /\ LiveGet =>
          IF store[key] # <<>> \/ default_value = NULL \/ default_value = <<>>
          THEN CStr(value) = store[key] /\ ret = Len(store[key])
          ELSE Len(default_value) < PROP_VALUE_MAX =>
                  CStr(value) = default_value /\ ret = Len(default_value)

C10_Witness ==
    LiveGet /\ key = KeyMax /\ default_value = D1 /\ store[key] = ValMax
        /\ CStr(value) = ValMax /\ ret = PROP_VALUE_MAX - 1

\* ------------------------------------------------------------------------
\* Two threads inside property_get at once, both past a failed exchange and
\* in find_key. Each has its own FILE and its own buf; strtok keeps its
\* position in one static pointer of the C library.
\* ------------------------------------------------------------------------
BuildProp2 ==
    <<"r", "o", ".", "a", "=", "1", LF, "r", "o", ".", "b", "=", "2", LF>>

InitConc ==
    /\ Idle
    /\ store = [k \in StoreKeys |-> NULL]
    /\ buildprop \in {BuildProp1, BuildProp2}
    /\ cmdline \in Cmdlines
    /\ t_pc = [t \in Threads |-> "fgets"]
    /\ t_key \in [Threads -> {K_A, K_B}]
    /\ t_pos = [t \in Threads |-> 1]
    /\ t_buf = [t \in Threads |-> <<NUL>>]
    /\ t_mkey = [t \in Threads |-> 0]
    /\ t_found = [t \in Threads |-> NULL]
    /\ t_value = [t \in Threads |-> NULL]
    /\ olds = [owner |-> 0, pos |-> 0]
    /\ NoLookup

\* lines 52-56: fgets into buf, line end stripped; line 73 at end of file
T_fgets(t) ==
    /\ t_pc[t] = "fgets"
    /\ LET line == Fgets(buildprop, t_pos[t]) IN
       IF line = <<>>
       THEN /\ t_found' = [t_found EXCEPT ![t] = NULL]
            /\ t_pc' = [t_pc EXCEPT ![t] = "ret"]
            /\ UNCHANGED <<t_buf, t_pos>>
       ELSE /\ t_buf' = [t_buf EXCEPT ![t] = StripEol(Strcpy(@, line))]
            /\ t_pos' = [t_pos EXCEPT ![t] = @ + Len(line)]
            /\ t_pc' = [t_pc EXCEPT ![t] = "strtok1"]
            /\ UNCHANGED t_found
    /\ UNCHANGED <<client, files, lookup, t_key, t_mkey, t_value, olds>>

\* lines 58-61: mkey = strtok(buf, "=")
T_strtok1(t) ==
    /\ t_pc[t] = "strtok1"
    /\ LET res == Strtok(t_buf[t], 1) IN
       /\ t_buf' = [t_buf EXCEPT ![t] = res.mem]
       /\ olds' = [owner |-> t, pos |-> res.save]
       /\ t_mkey' = [t_mkey EXCEPT ![t] = res.tok]
       /\ t_pc' = [t_pc EXCEPT ![t] = IF res.tok = 0 THEN "fgets" ELSE "strtok2"]
    /\ UNCHANGED <<client, files, lookup, t_key, t_pos, t_found, t_value>>

\* what the saved pointer designates: the owner's buf, or, once the owner's
\* find_key has returned, whatever its stack frame has become
SavedMem ==
    IF olds.owner = 0 THEN {}
    ELSE IF t_pc[olds.owner] \in {"ret", "done"}
    THEN {t_buf[olds.owner], <<NUL>>}
    ELSE {t_buf[olds.owner]}

\* lines 63-70: value = strtok(NULL, "="), then the comparison of the key
T_strtok2(t) ==
    /\ t_pc[t] = "strtok2"
    /\ \E mem \in SavedMem :
       LET res == Strtok(mem, olds.pos)
           bufs == [t_buf EXCEPT ![olds.owner] = res.mem]
       IN /\ t_buf' = bufs
          /\ olds' = [olds EXCEPT !.pos = res.save]
          /\ IF res.tok # 0 /\ t_key[t] = CStrAt(bufs[t], t_mkey[t])
             THEN /\ t_found' = [t_found EXCEPT ![t] = CStrAt(res.mem, res.tok)]
                  /\ t_pc' = [t_pc EXCEPT ![t] = "ret"]
             ELSE /\ t_pc' = [t_pc EXCEPT ![t] = "fgets"]
                  /\ UNCHANGED t_found
    /\ UNCHANGED <<client, files, lookup, t_key, t_pos, t_mkey, t_value>>

\* property_get, lines 253-264, with default_value = D1
T_return(t) ==
    /\ t_pc[t] = "ret"
    /\ LET found == IF t_found[t] # NULL THEN t_found[t]
                    ELSE find_key_kernel_cmdline(cmdline, t_key[t])
       IN t_value' = [t_value EXCEPT ![t] = CStr(Fallback(found, D1, OldBuf))]
    /\ t_pc' = [t_pc EXCEPT ![t] = "done"]
    /\ UNCHANGED <<client, files, lookup, t_key, t_pos, t_buf, t_mkey, t_found, olds>>

NextConc ==
    \/ \E t \in Threads : T_fgets(t)
    \/ \E t \in Threads : T_strtok1(t)
    \/ \E t \in Threads : T_strtok2(t)
    \/ \E t \in Threads : T_return(t)

SpecConc == InitConc /\ [][NextConc]_vars

\* C8: whatever the interleaving, each of two concurrent get calls hands
\* back what it hands back when it runs alone.
C8_SameAsAlone ==
    \A t \in Threads :
        t_pc[t] = "done" =>
            t_value[t] = CStr(Fallback(StaticLookup(t_key[t]).found, D1, OldBuf))

\* ------------------------------------------------------------------------
\* Properties of the calls, continued
\* ------------------------------------------------------------------------
\* what propfn is handed for the full-size reply m
Entry(m) == <<CStr(m.name), CStr(m.value)>>

\* C11: during list the callback has been invoked exactly once per full-size
\* reply, in the order of arrival, duplicates included; a later failure of
\* the stream makes list return -1 and leaves these invocations as they are.
\* get and set invoke no callback.
C11_CallbackPerReply ==
    /\ op = "list" => cbs = [i \in 1..Len(replies) |-> Entry(replies[i])]
    /\ op # "list" => cbs = <<>>
    /\ op = "list" /\ pc = "done" /\ how \in {"badlen", "recv"} => ret = -1

C11_Witness ==
    /\ op = "list" /\ pc = "done" /\ how = "recv" /\ ret = -1
    /\ replies = <<OtherReply, OtherReply>>
    /\ cbs = <<Entry(OtherReply), Entry(OtherReply)>>

\* a set whose key and value passed the length checks
ValidSet == op = "set" /\ ~Oversized

\* C12: a set with valid key and value makes one exchange (at most one
\* socket, one SETPROP envelope), reads no static source, and returns -1
\* whenever the connection could not be established.
C12_SetOneExchangeNoFallback ==
    ValidSet =>
        /\ nsock <= 1 /\ Len(sent) <= 1 /\ nfile = 0 /\ ncmd = 0
        /\ \A i \in 1..Len(sent) : sent[i].cmd = PROP_MSG_SETPROP
        /\ pc = "done" => Returned /\ (how # "nosock" => nsock = 1)
        /\ pc = "done" /\ how \in {"nosock", "connect"} => ret = -1 /\ sent = <<>>
        /\ pc = "done" /\ how \notin {"nosock", "connect"} =>
              Len(sent) = (IF how = "send" THEN 0 ELSE 1)

C12_Witness ==
    ValidSet /\ pc = "done" /\ how = "connect" /\ nsock = 1 /\ ret = -1

\* property_get has returned after an exchange that succeeded
GetSucceeded == pc = "done" /\ op = "get" /\ Returned /\ result = 0

\* the value field of the last reply received
LastValue == CStr(replies[Len(replies)].value)

\* C13: after a successful GET exchange, an empty value with a default
\* shorter than N2 supplied makes get return the default and its length,
\* no static source being read; a non-empty value is returned as it is.
C13_DefaultForEmptyValue ==
    GetSucceeded =>
        /\ LastValue = <<>> /\ default_value # NULL
              /\ Len(default_value) < PROP_VALUE_MAX =>
                 /\ CStr(value) = default_value /\ ret = Len(default_value)
                 /\ nfile = 0 /\ ncmd = 0
        /\ LastValue # <<>> =>
                 /\ CStr(value) = LastValue /\ ret = Len(LastValue)
                 /\ nfile = 0 /\ ncmd = 0

C13_Witness ==
    /\ GetSucceeded /\ LastValue = <<>> /\ default_value = D1
    /\ CStr(value) = D1 /\ ret = 1 /\ nfile = 0

\* C14: after a GET exchange that succeeded no static source has been read,
\* whatever the key and the default.
C14_StaticOnlyOnFailure == GetSucceeded => nfile = 0 /\ ncmd = 0

\* the buffer holds a C string padded with NUL up to its end
Padded(buf) == \A i \in 1..Len(buf) : i > Len(CStr(buf)) => buf[i] = NUL

\* C15: every envelope sent has the fixed size and the command of the call;
\* name and value are NUL-padded over their full size and hold strings of
\* at most N1-1 and N2-1 characters; list sends empty name and value, get
\* an empty value.
C15_EnvelopeWellFormed ==
    \A i \in 1..Len(sent) :
        LET m == sent[i] IN
        /\ m.cmd = OrigCmd
        /\ Len(m.name) = PROP_NAME_MAX /\ Len(m.value) = PROP_VALUE_MAX
        /\ SizeofCmd + Len(m.name) + Len(m.value) = SizeofMsg
        /\ Padded(m.name) /\ Padded(m.value)
        /\ Len(CStr(m.name)) <= PROP_NAME_MAX - 1
        /\ Len(CStr(m.value)) <= PROP_VALUE_MAX - 1
        /\ op = "list" => CStr(m.name) = <<>> /\ CStr(m.value) = <<>>
        /\ op = "get" => CStr(m.name) = key /\ CStr(m.value) = <<>>
        /\ op = "set" => CStr(m.name) = key

C15_Witness ==
    /\ op = "set" /\ Len(sent) = 1 /\ CStr(sent[1].name) = KeyMax
    /\ CStr(sent[1].value) = ValMax

K_C == <<"r", "o", ".", "c">>
K_RO == RO
K_Malformed == <<"m", "a", "l", "f", "o", "r", "m", "e", "d">>
\* a key of PROP_NAME_MAX - 1 characters that starts with "ro."
KeyBootMax == RO \o Rep("k", PROP_NAME_MAX - 4)
LookupKeys == {K_A, K_B, K_C, K_RO, K_Malformed, KeyBootMax}

\* lines of /system/build.prop, without their LF
PropLines ==
    {<<"r", "o", ".", "a", "=", "1", CR>>,
     K_Malformed,
     <<"r", "o", ".", "c", "=", "x", "=", "y">>,
     <<"=", "r", "o", ".", "a", "=", "5">>,
     <<"r", "o", ".", "a", "=">>,
     <<"r", "o", ".", "b", "=", "2">>}

\* tokens of /proc/cmdline
CmdTokens ==
    {ANDROIDBOOT \o <<"a", "=", "9">>,
     <<"c", "o", "n", "s", "o", "l", "e", "=", "t">>,
     ANDROIDBOOT \o <<"=", "v">>,
     ANDROIDBOOT \o Rep("k", PROP_NAME_MAX - 4) \o <<"x", "=", "7">>,
     ANDROIDBOOT \o <<"b">>,
     <<"=", "z">>}

\* files of one or two lines, each line ended by LF
LookupFiles ==
    {l \o <<LF>> : l \in PropLines}
        \cup {l1 \o <<LF>> \o l2 \o <<LF>> : l1 \in PropLines, l2 \in PropLines}

\* command lines of one or two tokens, ended by LF
LookupCmdlines ==
    {t \o <<LF>> : t \in CmdTokens}
        \cup {t1 \o <<" ">> \o t2 \o <<LF>> : t1 \in CmdTokens, t2 \in CmdTokens}

InitStatic ==
    /\ Idle
    /\ store = [k \in StoreKeys |-> NULL]
    /\ NoThreads
    /\ \/ buildprop \in LookupFiles /\ cmdline = NULL
       \/ buildprop = NULL /\ cmdline \in LookupCmdlines
    /\ l_pc = "start"
    /\ l_key \in LookupKeys
    /\ l_found = NULL

\* find_key(key) run alone
L_find_key ==
    /\ l_pc = "start"
    /\ l_found' = find_key(buildprop, l_key)
    /\ l_pc' = "file"
    /\ UNCHANGED <<client, files, threads, l_key>>

\* find_key_kernel_cmdline(key) run alone
L_find_key_kernel_cmdline ==
    /\ l_pc = "start"
    /\ l_found' = find_key_kernel_cmdline(cmdline, l_key)
    /\ l_pc' = "cmdline"
    /\ UNCHANGED <<client, files, threads, l_key>>

NextStatic == L_find_key \/ L_find_key_kernel_cmdline

SpecStatic == InitStatic /\ [][NextStatic]_vars

\* the pieces of text between the separators sep
RECURSIVE Split(_, _)
Split(text, sep) ==
    LET i == IndexOf(text, 1, {sep}) IN
    IF i = 0 THEN <<text>>
    ELSE <<SubSeq(text, 1, i - 1)>> \o Split(SubSeq(text, i + 1, Len(text)), sep)

\* text without the CR and LF at its end
RECURSIVE Chomp(_)
Chomp(text) ==
    IF text # <<>> /\ text[Len(text)] \in {CR, LF}
    THEN Chomp(SubSeq(text, 1, Len(text) - 1)) ELSE text

\* the lines of a file, line ends stripped
LinesOf(file) ==
    LET ls == Split(file, LF)
        n == IF ls[Len(ls)] = <<>> THEN Len(ls) - 1 ELSE Len(ls)
    IN [i \in 1..n |-> Chomp(ls[i])]

\* what is before and after the first "=" of a text that has one
NameOf(text) == SubSeq(text, 1, IndexOf(text, 1, {"="}) - 1)
ValueOf(text) == SubSeq(text, IndexOf(text, 1, {"="}) + 1, Len(text))
HasEq(text) == IndexOf(text, 1, {"="}) # 0

\* the value of the first of the texts ts split at its first "=" whose name
\* is one of names, NULL if there is none
RECURSIVE FirstMatch(_, _, _)
FirstMatch(ts, i, names) ==
    IF i > Len(ts) THEN NULL
    ELSE IF HasEq(ts[i]) /\ NameOf(ts[i]) \in names THEN ValueOf(ts[i])
    ELSE FirstMatch(ts, i + 1, names)

\* C16: find_key returns, for the first line whose text before the first
\* "=" is the key, all that follows this first "=", further "=" and the
\* empty value included, and NULL when there is no such line.
C16_SplitAtFirstEq ==
    l_pc = "file" =>
        l_found = (IF buildprop = NULL THEN NULL
                   ELSE FirstMatch(LinesOf(buildprop), 1, {l_key}))

\* a line without "=" or with nothing before its first "="
Malformed(line) == ~HasEq(line) \/ NameOf(line) = <<>>

\* the file without its malformed lines
RECURSIVE WellFormedPart(_, _)
WellFormedPart(ls, i) ==
    IF i > Len(ls) THEN <<>>
    ELSE (IF Malformed(ls[i]) THEN <<>> ELSE ls[i] \o <<LF>>)
             \o WellFormedPart(ls, i + 1)

\* C17: malformed lines are skipped: find_key returns what it returns on
\* the file without them, so they match no key and hide no later line.
C17_MalformedSkipped ==
    l_pc = "file" /\ buildprop # NULL =>
        l_found = find_key(WellFormedPart(LinesOf(buildprop), 1), l_key)

\* the command line as tokens
TokensOf(file) ==
    Split(IF file # <<>> /\ file[Len(file)] = LF
          THEN SubSeq(file, 1, Len(file) - 1) ELSE file, " ")

\* the token names that stand for the key: "androidboot." and the non-empty
\* rest of a key that starts with "ro."
BootNames(k) ==
    IF Len(k) > 3 /\ SubSeq(k, 1, 3) = RO
    THEN {ANDROIDBOOT \o SubSeq(k, 4, Len(k))} ELSE {}

\* C18: find_key_kernel_cmdline returns the value of the first token
\* name=value whose name is "androidboot." and a non-empty suffix with
\* "ro." + suffix equal to the key, and NULL if there is none.
C18_BootTokenExact ==
    l_pc = "cmdline" =>
        l_found = (IF cmdline = NULL THEN NULL
                   ELSE FirstMatch(TokensOf(cmdline), 1, BootNames(l_key)))

\* ------------------------------------------------------------------------
\* Termination of the exchange
\* ------------------------------------------------------------------------
\* the system calls of send_prop_msg return, and the service ends the
\* stream: it closes the connection or recv() fails
SocketReturns == \E ok \in BOOLEAN : Socket(ok)
ConnectReturns ==
    \E c \in {<<0, EOTHER>>, <<-1, EOTHER>>, <<-1, EINTR>>} : Connect(c[1], c[2])
SendReturns ==
    \E c \in {<<SizeofMsg, EOTHER>>, <<ShortLen, EOTHER>>, <<-1, EOTHER>>,
               <<-1, EINTR>>} : Send(c[1], c[2])
StreamEnds ==
    \E c \in {<<0, EOTHER>>, <<-1, EOTHER>>, <<-1, EINTR>>} : RecvEnd(c[1], c[2])

SpecLive ==
    /\ Init /\ [][Next]_vars
    /\ WF_vars(SocketReturns) /\ WF_vars(ConnectReturns)
    /\ WF_vars(SendReturns) /\ WF_vars(StreamEnds)

\* send_prop_msg is running
InExchange == pc \in {"socket", "connect", "send", "recv"}

\* C19 as stated: the exchange returns once the stream ends, and the receive
\* loop is left only by a close (recv() = 0) or an I/O error (recv() = -1)
C19_NoOtherExit ==
    /\ InExchange ~> pc = "resume"
    /\ [][pc = "recv" /\ pc' # "recv" => r' \in {0, -1}]_vars

\* C19, amended: when the service ends the stream (a close or a failing
\* recv), the exchange returns; the receive loop is left only by a recv() that did not
\* yield a full envelope (a close, an error or a reply of the wrong length),
\* there is no timeout: while the service sends nothing and keeps the
\* connection, the call stays in recv.
C19_ReturnsWhenStreamEnds ==
    /\ InExchange ~> pc = "resume"
    /\ [][pc = "recv" /\ pc' # "recv" =>
             pc' = "resume" /\ r' # SizeofMsg /\ how' \in {"closed", "recv", "badlen"}]_vars

C19_Witness ==
    pc = "resume" /\ how = "badlen" /\ r = ShortLen /\ Len(replies) = 1

====
